---- MODULE Spec2Model ----
(***************************************************************************)
(* PolymarketAnalyzer: the paginated trade fetchers and the profit-and-loss *)
(* leaderboard aggregators.                                                 *)
(*                                                                          *)
(* Five scripts re-implement the same fetch loop; they differ in the page   *)
(* size, in whether the loop has an offset ceiling and in what happens      *)
(* when a request fails.  Three scripts re-implement the aggregation.       *)
(*                                                                          *)
(*   FetchSpec  one run of one fetcher against a server                     *)
(*   GraphSpec  one run of the GraphQL paginator                            *)
(*   SizeSpec   one run of a fetcher with a ceiling, at its real page size  *)
(*   AggSpec    one call of one aggregator on a trade list                  *)
(*   LoopSpec   the loop over the trades of one wallet                      *)
(*   DashSpec   the runs of the dashboard's main in one browser session     *)
(*                                                                          *)
(* Scale.  The sources page by 1000 or 500 records up to offset 10000.      *)
(* The loops only compare len(trades) with limit and offset with the        *)
(* ceiling, so the model runs the same loops with a page of PageSize        *)
(* records and a ceiling of CeilingPages pages.  Money is counted in        *)
(* cents: a price of 0.20 is 20, one settled share is worth Dollar.         *)
(***************************************************************************)
EXTENDS Integers, Sequences, FiniteSets, TLC

VARIABLES
    \* ---- fetcher ----
    fetcher,        \* which script's fetch loop runs
    server,         \* how the server answers (environment)
    pc,             \* "loop" | "returned" | "raised"
    offset,         \* offset of the next request
    all_trades,     \* accumulated result
    seen_hashes,    \* transaction hashes seen so far
    trades,         \* the page of the latest response
    new_trades,     \* the trades kept from the latest non-empty page
    requested,      \* offsets of the requests sent so far, in order
    failed,         \* a request ended with a non-success status
    first_received, \* received trades, each hash value at its first receipt
    data,           \* the envelope of the latest GraphQL response
    \* ---- aggregator ----
    agg_pc,         \* "input" | aggregator that returned | "app_sorted" |
                    \* the exception that left the aggregator
    agg_trades,     \* the trade list handed to the aggregator
    resolves_to,    \* "Yes" | "No"
    results,        \* the list the aggregator returned
    leaderboard_pnl,\* the dashboard's sorted copy (main)
    calls,          \* how many times the aggregator was called
    results_again,  \* the list a second call returned
    user_trades,    \* the trades in the grouping dict of the latest call
    \* ---- the loop over one wallet's trades ----
    wallet_trades,  \* user_trade_list of the wallet
    processed,      \* how many of them the loop has gone through
    position,       \* yes_shares, no_shares, total_spent, total_received
    \* ---- a fetch loop at its real page size: lists as their lengths ----
    len_trades,     \* len(trades) of the latest response
    len_new_trades, \* len(new_trades) of the latest non-empty page
    len_all_trades, \* len(all_trades)
    \* ---- the dashboard's main, run once per rerun ----
    session_state,  \* st.session_state: kept from one rerun to the next
    input_method,   \* the radio button
    condition_id,   \* the condition ID selected for analysis, or None
    actual_resolution, \* the resolution detected, or None
    default_index,  \* the default of the outcome selector
    resolution,     \* the outcome picked in the selector
    market_volume,  \* the Market Volume metric, when the analysis is shown
    dash_pc,        \* how the latest run of main ended
    reruns          \* how many times main has run

fetch_vars == <<fetcher, server, pc, offset, all_trades, seen_hashes, trades,
                new_trades, requested, failed, first_received, data>>
agg_vars == <<agg_pc, agg_trades, resolves_to, results, leaderboard_pnl,
              calls, results_again, user_trades>>
loop_vars == <<wallet_trades, processed, position>>
size_vars == <<len_trades, len_new_trades, len_all_trades>>
dash_vars == <<session_state, input_method, condition_id, actual_resolution,
               default_index, resolution, market_volume, dash_pc, reruns>>
vars == <<fetch_vars, agg_vars, loop_vars, size_vars, dash_vars>>

(***************************************************************************)
(* Bounds                                                                   *)
(***************************************************************************)
PageSize == 2       \* records per page (limit)
CeilingPages == 3   \* pages below the offset ceiling
MaxTrades == 3      \* longest trade list handed to an aggregator
MaxBatches == 3     \* GraphQL batches followed in one run
MaxReruns == 3      \* reruns of the dashboard followed in one session
MaxFetched == 2     \* longest list the dashboard's fetch returns

(***************************************************************************)
(* Trades as the fetchers see them: the loop reads transactionHash only,    *)
(* the rest of the record (here the wallet) is carried along.  An absent,   *)
(* null or empty transactionHash is falsy in Python; it is written 0.       *)
(***************************************************************************)
Trade(h, w) == [transactionHash |-> h, proxyWallet |-> w]

\* a test that lets every value pass
AnyValue(tx_hash) == TRUE

Truthy(tx_hash) == tx_hash # 0

\* the transaction hashes a free server chooses from
Hashes == 1..3

\* Hash 1 comes with two different records: one transaction, two fills.
TradeUniverse ==
    {Trade(0, "w1"), Trade(1, "w2")} \cup {Trade(h, "w1") : h \in Hashes}

(***************************************************************************)
(* The five fetch loops                                                     *)
(***************************************************************************)
Fetchers == {"analyze_big_trades", "analyze_market", "find_midrange_trades",
             "fetch_with_filters", "streamlit_app"}

\* limit = 1000 (analyze_big_trades, fetch_with_filters) or 500 (the others)
limit(f) == PageSize

\* the literal 10000 of the three loops that have a ceiling
OffsetCeiling == CeilingPages * PageSize

\* `while offset < 10000` against `while True`
HasCeiling(f) == f \in {"analyze_big_trades", "fetch_with_filters", "streamlit_app"}

LoopCondWhileTrue(f, off) == TRUE

LoopCond(f, off) == HasCeiling(f) => off < OffsetCeiling

\* the dashboard wraps the request in try/except and breaks out of the loop
CatchesEverywhere(f) == TRUE

CatchesRequestError(f) == f = "streamlit_app"

\* The dedup loop over one page: `for trade in trades: ...`
RECURSIVE DedupFrom(_, _, _, _)
DedupFrom(page, i, seen, kept) ==
    IF i > Len(page)
    THEN [seen_hashes |-> seen, new_trades |-> kept]
    ELSE LET tx_hash == page[i].transactionHash
         IN  IF Truthy(tx_hash) /\ tx_hash \notin seen
             THEN DedupFrom(page, i + 1, seen \cup {tx_hash}, Append(kept, page[i]))
             ELSE DedupFrom(page, i + 1, seen, kept)

\* the loop without `tx_hash not in seen_hashes`
RECURSIVE KeepHashedFrom(_, _, _, _)
KeepHashedFrom(page, i, seen, kept) ==
    IF i > Len(page)
    THEN [seen_hashes |-> seen, new_trades |-> kept]
    ELSE LET tx_hash == page[i].transactionHash
         IN  IF Truthy(tx_hash)
             THEN KeepHashedFrom(page, i + 1, seen \cup {tx_hash}, Append(kept, page[i]))
             ELSE KeepHashedFrom(page, i + 1, seen, kept)

DeduplicateNoSeenTest(page, seen) == KeepHashedFrom(page, 1, seen, <<>>)

\* the loop with new_trades.insert(0, trade) for new_trades.append(trade)
RECURSIVE DedupPrependFrom(_, _, _, _)
DedupPrependFrom(page, i, seen, kept) ==
    IF i > Len(page)
    THEN [seen_hashes |-> seen, new_trades |-> kept]
    ELSE LET tx_hash == page[i].transactionHash
         IN  IF Truthy(tx_hash) /\ tx_hash \notin seen
             THEN DedupPrependFrom(page, i + 1, seen \cup {tx_hash}, <<page[i]>> \o kept)
             ELSE DedupPrependFrom(page, i + 1, seen, kept)

DeduplicatePrepend(page, seen) == DedupPrependFrom(page, 1, seen, <<>>)

Deduplicate(page, seen) == DedupFrom(page, 1, seen, <<>>)

\* `if not trades: break`
EmptyPage(page) == page = <<>>

NeverAllDuplicates(kept) == FALSE

\* `if not new_trades: break`
AllDuplicates(kept) == kept = <<>>

ShortPageOrFull(page, lim) == Len(page) <= lim

\* `if len(trades) < limit: break`
ShortPage(page, lim) == Len(page) < lim

(***************************************************************************)
(* The server.  A free server answers any request with any page of at most  *)
(* limit records, or with a non-success status.  A list server holds n      *)
(* trades with hashes 1..n and answers (offset, limit) with that slice;     *)
(* past the end it answers with an empty page or repeats its last page.     *)
(***************************************************************************)
Min(a, b) == IF a < b THEN a ELSE b

Pages(lim) == UNION {[1..n -> TradeUniverse] : n \in 0..lim}

ServerList(n) == [i \in 1..n |-> Trade(i, "w1")]

Slice(list, off, lim) == SubSeq(list, off + 1, Min(off + lim, Len(list)))

LastPage(list, lim) ==
    IF list = <<>> THEN <<>>
    ELSE Slice(list, ((Len(list) - 1) \div lim) * lim, lim)

Servers ==
    {[kind |-> "free", n |-> 0, past |-> "empty"]} \cup
    {[kind |-> "list", n |-> k, past |-> p] :
        k \in 0..OffsetCeiling, p \in {"empty", "repeat"}}

Responses(srv, off, lim) ==
    IF srv.kind = "free" THEN Pages(lim)
    ELSE IF off < srv.n \/ srv.past = "empty"
         THEN {Slice(ServerList(srv.n), off, lim)}
         ELSE {LastPage(ServerList(srv.n), lim)}

\* The received trades from which every trade whose transactionHash value
\* (absent counts as a value) occurred earlier is removed.
RECURSIVE FirstOccurrences(_)
FirstOccurrences(s) ==
    IF s = <<>> THEN <<>>
    ELSE LET front == SubSeq(s, 1, Len(s) - 1)
             last == s[Len(s)]
         IN  IF \E j \in 1..(Len(s) - 1) : s[j].transactionHash = last.transactionHash
             THEN FirstOccurrences(front)
             ELSE Append(FirstOccurrences(front), last)

\* the model stops following a loop without ceiling after this many requests
MaxRequests == CeilingPages + 2

(***************************************************************************)
(* GraphQL envelopes.  The response is a JSON object in which the keys      *)
(* errors and data may each be there or not; data is null or an object in   *)
(* which ordersMatchedEvents is missing, null or a list.                    *)
(***************************************************************************)
Events(kind, list) == [kind |-> kind, list |-> list]

Data(kind, events) == [kind |-> kind, events |-> events]

Envelope(errors, d) == [errors |-> errors, data |-> d]

NoEnvelope == Envelope(FALSE, Data("absent", Events("absent", <<>>)))

\* batch_size = 1000
batch_size == PageSize

EventLists == UNION {[1..n -> {Trade(1, "w1"), Trade(2, "w1")}] : n \in 0..batch_size}

EventsValues ==
    {Events("absent", <<>>), Events("null", <<>>)}
        \cup {Events("list", l) : l \in EventLists}

DataValues ==
    {Data("absent", Events("absent", <<>>)), Data("null", Events("absent", <<>>))}
        \cup {Data("object", ev) : ev \in EventsValues}

Envelopes == {Envelope(e, d) : e \in BOOLEAN, d \in DataValues}

\* what a call gives back: a list, None, or an exception
Returns(list) == [kind |-> "list", value |-> list]

ReturnsNone == [kind |-> "None", value |-> <<>>]

Raises(exception) == [kind |-> exception, value |-> <<>>]

\* data.get("data", {}).get("ordersMatchedEvents", [])
GetEvents(envelope) ==
    IF envelope.data.kind = "absent" THEN Returns(<<>>)
    ELSE IF envelope.data.kind = "null" THEN Raises("AttributeError")
    ELSE IF envelope.data.events.kind = "absent" THEN Returns(<<>>)
    ELSE IF envelope.data.events.kind = "null" THEN ReturnsNone
    ELSE Returns(envelope.data.events.list)

\* the function without the test of the errors key
IgnoresErrors(envelope) == GetEvents(envelope)

\* fetch_trades_graphql after response.json()
fetch_trades_graphql(envelope) ==
    IF envelope.errors THEN Returns(<<>>) ELSE GetEvents(envelope)

(***************************************************************************)
(* Fetcher actions: one per pass through the loop                           *)
(***************************************************************************)
LoopIdle ==
    /\ wallet_trades = <<>>
    /\ processed = 0
    /\ position = [yes_shares |-> 0, no_shares |-> 0,
                   total_spent |-> 0, total_received |-> 0]

\* an empty st.session_state
EmptySession == [key \in {} |-> 0]

\* Python's None
None == "<None>"

\* the analysis, and with it the Market Volume metric, is not rendered
NotShown == "<not shown>"

DashIdle ==
    /\ session_state = EmptySession
    /\ input_method = "Search by Name"
    /\ condition_id = None
    /\ actual_resolution = None
    /\ default_index = 0
    /\ resolution = None
    /\ market_volume = NotShown
    /\ dash_pc = "idle"
    /\ reruns = 0

SizeIdle ==
    /\ len_trades = 0
    /\ len_new_trades = 0
    /\ len_all_trades = 0

AggIdle ==
    /\ agg_pc = "idle"
    /\ agg_trades = <<>>
    /\ resolves_to = "Yes"
    /\ results = <<>>
    /\ leaderboard_pnl = <<>>
    /\ calls = 0
    /\ results_again = <<>>
    /\ user_trades = <<>>

FetchInit ==
    /\ fetcher \in Fetchers
    /\ server \in Servers
    /\ pc = "loop"
    /\ offset = 0
    /\ all_trades = <<>>
    /\ seen_hashes = {}
    /\ trades = <<>>
    /\ new_trades = <<>>
    /\ requested = <<>>
    /\ failed = FALSE
    /\ first_received = <<>>
    /\ data = NoEnvelope
    /\ AggIdle
    /\ LoopIdle
    /\ SizeIdle
    /\ DashIdle

\* One iteration whose request succeeds: request, response.json(), the
\* three break tests, the dedup loop, extend, offset += limit.
FetchPage(page) ==
    /\ pc = "loop"
    /\ LoopCond(fetcher, offset)
    /\ Len(requested) < MaxRequests
    /\ requested' = Append(requested, offset)
    /\ trades' = page
    /\ first_received' = FirstOccurrences(first_received \o page)
    /\ IF EmptyPage(page)
       THEN /\ pc' = "returned"
            /\ UNCHANGED <<offset, all_trades, seen_hashes, new_trades>>
       ELSE LET d == Deduplicate(page, seen_hashes)
            IN  /\ seen_hashes' = d.seen_hashes
                /\ new_trades' = d.new_trades
                /\ IF AllDuplicates(d.new_trades)
                   THEN /\ pc' = "returned"
                        /\ UNCHANGED <<offset, all_trades>>
                   ELSE /\ all_trades' = all_trades \o d.new_trades
                        /\ IF ShortPage(page, limit(fetcher))
                           THEN pc' = "returned" /\ offset' = offset
                           ELSE pc' = "loop" /\ offset' = offset + limit(fetcher)
    /\ UNCHANGED <<fetcher, server, failed, data, agg_vars, loop_vars, size_vars, dash_vars>>

\* One iteration whose request fails: raise_for_status() raises.  The
\* scripts let the exception escape; the dashboard reports it and breaks,
\* so that its caller gets all_trades as collected so far.
FetchFails ==
    /\ pc = "loop"
    /\ LoopCond(fetcher, offset)
    /\ Len(requested) < MaxRequests
    /\ server.kind = "free"
    /\ requested' = Append(requested, offset)
    /\ failed' = TRUE
    /\ pc' = IF CatchesRequestError(fetcher) THEN "returned" ELSE "raised"
    /\ UNCHANGED <<fetcher, server, offset, all_trades, seen_hashes, trades,
                   new_trades, first_received, data, agg_vars, loop_vars, size_vars, dash_vars>>

\* The while condition is false: the loop ends and all_trades is returned.
CeilingReached ==
    /\ pc = "loop"
    /\ ~LoopCond(fetcher, offset)
    /\ pc' = "returned"
    /\ UNCHANGED <<fetcher, server, offset, all_trades, seen_hashes, trades,
                   new_trades, requested, failed, first_received, data,
                   agg_vars, loop_vars, size_vars, dash_vars>>

FetchNext ==
    \/ \E page \in Responses(server, offset, limit(fetcher)) : FetchPage(page)
    \/ FetchFails
    \/ CeilingReached

FetchSpec == FetchInit /\ [][FetchNext]_vars

(***************************************************************************)
(* fetch_all_trades_graphql: one action per pass through `while True`.      *)
(* offset holds skip.                                                       *)
(***************************************************************************)
GraphInit ==
    /\ fetcher = "fetch_historical_trades_graphql"
    /\ server = [kind |-> "graphql", n |-> 0, past |-> "empty"]
    /\ pc = "loop"
    /\ offset = 0
    /\ all_trades = <<>>
    /\ seen_hashes = {}
    /\ trades = <<>>
    /\ new_trades = <<>>
    /\ requested = <<>>
    /\ failed = FALSE
    /\ first_received = <<>>
    /\ data = NoEnvelope
    /\ AggIdle
    /\ LoopIdle
    /\ SizeIdle
    /\ DashIdle

\* One iteration whose request succeeds: fetch_trades_graphql, the two
\* break tests, extend, skip += batch_size.
GraphBatch(envelope) ==
    /\ pc = "loop"
    /\ Len(requested) < MaxBatches
    /\ requested' = Append(requested, offset)
    /\ data' = envelope
    /\ LET r == fetch_trades_graphql(envelope)
       IN  IF r.kind \notin {"list", "None"}
           THEN /\ pc' = "raised"
                /\ UNCHANGED <<offset, all_trades, trades>>
           ELSE /\ trades' = r.value
                /\ IF r.kind = "None" \/ r.value = <<>>
                   THEN pc' = "returned" /\ UNCHANGED <<offset, all_trades>>
                   ELSE /\ all_trades' = all_trades \o r.value
                        /\ IF Len(r.value) < batch_size
                           THEN pc' = "returned" /\ offset' = offset
                           ELSE pc' = "loop" /\ offset' = offset + batch_size
    /\ UNCHANGED <<fetcher, server, seen_hashes, new_trades, failed,
                   first_received, agg_vars, loop_vars, size_vars, dash_vars>>

\* One iteration whose request fails: raise_for_status() raises.
GraphFails ==
    /\ pc = "loop"
    /\ Len(requested) < MaxBatches
    /\ requested' = Append(requested, offset)
    /\ failed' = TRUE
    /\ pc' = "raised"
    /\ UNCHANGED <<fetcher, server, offset, all_trades, seen_hashes, trades,
                   new_trades, first_received, data, agg_vars, loop_vars, size_vars, dash_vars>>

GraphNext ==
    \/ \E envelope \in Envelopes : GraphBatch(envelope)
    \/ GraphFails

GraphSpec == GraphInit /\ [][GraphNext]_vars

(***************************************************************************)
(* The three loops with a ceiling at their real size.  The loop tests and   *)
(* the offset arithmetic read only the lengths of trades and new_trades,    *)
(* so here a page is its length together with the number of its trades     *)
(* that the dedup loop keeps; the lists themselves are not carried.         *)
(***************************************************************************)
\* limit = 1000 / limit = 500
RealLimit(f) ==
    IF f \in {"analyze_big_trades", "fetch_with_filters"} THEN 1000 ELSE 500

\* the literal of `while offset < 10000`
RealCeiling == 10000

\* a loop condition that lets the ceiling itself through
SizeLoopCondInclusive(off) == off <= RealCeiling

\* `while offset < 10000`
SizeLoopCond(off) == off < RealCeiling

\* len(trades): the server sends at most limit records
PageLengths(lim) == {0, 1, lim - 1, lim}

\* len(new_trades): none, one, all but one or all of the page's trades
NewCounts(n) == {k \in {0, 1, n - 1, n} : k >= 0}

SizeInit ==
    /\ fetcher \in {f \in Fetchers : HasCeiling(f)}
    /\ server = [kind |-> "sizes", n |-> 0, past |-> "empty"]
    /\ pc = "loop"
    /\ offset = 0
    /\ all_trades = <<>>
    /\ seen_hashes = {}
    /\ trades = <<>>
    /\ new_trades = <<>>
    /\ requested = <<>>
    /\ failed = FALSE
    /\ first_received = <<>>
    /\ data = NoEnvelope
    /\ AggIdle
    /\ LoopIdle
    /\ SizeIdle
    /\ DashIdle

\* One iteration whose request succeeds, as FetchPage.
SizePage(n, k) ==
    /\ pc = "loop"
    /\ SizeLoopCond(offset)
    /\ requested' = Append(requested, offset)
    /\ len_trades' = n
    /\ IF n = 0
       THEN /\ pc' = "returned"
            /\ UNCHANGED <<offset, len_new_trades, len_all_trades>>
       ELSE /\ len_new_trades' = k
            /\ IF k = 0
               THEN /\ pc' = "returned"
                    /\ UNCHANGED <<offset, len_all_trades>>
               ELSE /\ len_all_trades' = len_all_trades + k
                    /\ IF n < RealLimit(fetcher)
                       THEN pc' = "returned" /\ offset' = offset
                       ELSE pc' = "loop" /\ offset' = offset + RealLimit(fetcher)
    /\ UNCHANGED <<fetcher, server, all_trades, seen_hashes, trades, new_trades,
                   failed, first_received, data, agg_vars, loop_vars, dash_vars>>

\* One iteration whose request fails, as FetchFails.
SizeFails ==
    /\ pc = "loop"
    /\ SizeLoopCond(offset)
    /\ requested' = Append(requested, offset)
    /\ failed' = TRUE
    /\ pc' = IF CatchesRequestError(fetcher) THEN "returned" ELSE "raised"
    /\ UNCHANGED <<fetcher, server, offset, all_trades, seen_hashes, trades,
                   new_trades, first_received, data, agg_vars, loop_vars,
                   size_vars, dash_vars>>

\* The while condition is false, as CeilingReached.
SizeCeilingReached ==
    /\ pc = "loop"
    /\ ~SizeLoopCond(offset)
    /\ pc' = "returned"
    /\ UNCHANGED <<fetcher, server, offset, all_trades, seen_hashes, trades,
                   new_trades, requested, failed, first_received, data,
                   agg_vars, loop_vars, size_vars, dash_vars>>

SizeNext ==
    \/ \E n \in PageLengths(RealLimit(fetcher)) :
          \E k \in NewCounts(n) : SizePage(n, k)
    \/ SizeFails
    \/ SizeCeilingReached

SizeSpec == SizeInit /\ [][SizeNext]_vars

(***************************************************************************)
(* Properties of the fetchers                                               *)
(***************************************************************************)
HasHash(t) == Truthy(t.transactionHash)

TradesOf(s) == {s[i] : i \in DOMAIN s}

\* a step in which a page was received
ReceivesPage == Len(requested') = Len(requested) + 1 /\ ~failed'

\* no trade of the page has a hash that was not seen before the page
NoUnseenHash(page, seen) ==
    \A i \in DOMAIN page : HasHash(page[i]) => page[i].transactionHash \in seen

\* C1: the list a fetcher has accumulated, and so the list it returns, never
\* holds two trades with the same transactionHash, whatever pages the
\* server sends.
C1_NoDuplicateHashes ==
    \A i, j \in DOMAIN all_trades :
        i # j => all_trades[i].transactionHash # all_trades[j].transactionHash

\* a later page repeated the hash of a kept trade in a different record
C1_Witness ==
    /\ pc = "returned"
    /\ Len(requested) >= 2
    /\ Len(all_trades) >= 2
    /\ \E i \in DOMAIN trades, j \in DOMAIN all_trades :
          /\ trades[i].transactionHash = all_trades[j].transactionHash
          /\ trades[i] # all_trades[j]

\* C2: an empty page, a page without any not-yet-seen hash and a page shorter
\* than limit each end the fetch in that very iteration: the fetcher returns
\* and sends no further request.  When page 2 repeats a full page 1 the
\* result is what page 1 contributed and exactly two requests were sent.
C2_StopsOnLastPage ==
    /\ [][(ReceivesPage /\ (trades' = <<>> \/ NoUnseenHash(trades', seen_hashes)))
            => (pc' = "returned" /\ all_trades' = all_trades)]_vars
    /\ [][(ReceivesPage /\ Len(trades') < limit(fetcher)) => pc' = "returned"]_vars
    /\ [][(ReceivesPage /\ Len(requested) = 1 /\ trades' = trades)
            => (pc' = "returned" /\ all_trades' = new_trades
                /\ requested' = <<0, limit(fetcher)>>)]_vars
    /\ [](pc = "returned" => ~ENABLED FetchNext)

\* the fetch ended on a full second page equal to what was kept of page 1
C2_Witness ==
    /\ pc = "returned"
    /\ ~failed
    /\ Len(requested) = 2
    /\ Len(trades) = limit(fetcher)
    /\ all_trades = trades

\* C3 as stated: no fetcher ever requests a page at an offset at or beyond
\* the ceiling.
C3_EveryFetcherBelowCeiling ==
    \A i \in DOMAIN requested : requested[i] < OffsetCeiling

\* C3 amended: the three fetchers whose loop is `while offset < 10000`
\* never request a page at an offset at or beyond the ceiling.
C3_CeilingFetchersBelowCeiling ==
    fetcher \in {"analyze_big_trades", "fetch_with_filters", "streamlit_app"}
        => \A i \in DOMAIN requested : requested[i] < OffsetCeiling

\* a loop with a ceiling ran out of offsets
C3_Witness ==
    /\ fetcher \in {"analyze_big_trades", "fetch_with_filters", "streamlit_app"}
    /\ pc = "returned"
    /\ offset = OffsetCeiling
    /\ Len(requested) = CeilingPages
    /\ Len(trades) = limit(fetcher)

\* C4 as stated: after a failed request no fetcher returns normally.
C4_FailureIsAlwaysRaised == failed => pc = "raised"

\* C4 amended: in the four scripts a failed request raises out of the
\* fetcher; the dashboard's fetcher returns normally the trades it had
\* accumulated before the failure.
C4_ScriptsRaiseDashboardReturns ==
    /\ [](failed =>
            IF fetcher = "streamlit_app" THEN pc = "returned" ELSE pc = "raised")
    /\ [][failed' => all_trades' = all_trades]_vars

\* a script failed on a page after the first
C4_Witness ==
    /\ failed
    /\ fetcher # "streamlit_app"
    /\ pc = "raised"
    /\ Len(requested) >= 2
    /\ all_trades # <<>>

\* C5: against a server that holds n <= ceiling trades with distinct
\* non-empty hashes and answers with slices (past the end: an empty page or
\* its last page again), every fetcher comes to return, and returns exactly
\* the server's list.
C5_ListServerComplete ==
    server.kind = "list" =>
        /\ pc # "raised"
        /\ pc = "loop" => ENABLED FetchNext
        /\ pc = "returned" => all_trades = ServerList(server.n)

\* n is a multiple of the page size and the server repeats its last page
C5_Witness ==
    /\ server.kind = "list"
    /\ server.past = "repeat"
    /\ server.n = 2 * limit(fetcher)
    /\ pc = "returned"
    /\ requested = <<0, limit(fetcher), 2 * limit(fetcher)>>
    /\ all_trades = ServerList(server.n)

\* C6 as stated: the result is the concatenation of the received pages from
\* which exactly the trades whose hash occurred earlier are removed.
C6_OnlyRepeatsRemoved == all_trades = first_received

\* C6 amended: the result is the concatenation of the received pages from
\* which the trades whose hash occurred earlier and the trades without a
\* hash are removed; the kept trades are first occurrences, in order.
C6_FirstOccurrencesWithHash == all_trades = SelectSeq(first_received, HasHash)

\* pages that repeat a hash within a page and across pages
C6_Witness ==
    /\ pc = "returned"
    /\ Len(requested) >= 2
    /\ Len(all_trades) >= 3
    /\ \E i \in DOMAIN trades :
          HasHash(trades[i]) /\ trades[i] \notin TradesOf(all_trades)

(***************************************************************************)
(* Trades as the aggregators see them.  size is a number of shares, price   *)
(* is in cents per share.                                                   *)
(***************************************************************************)
\* name and pseudonym are optional: a key may be absent, hold null, an empty
\* string, a string of blanks, or a name.
Absent == "<absent>"

Null == "<null>"

NameValues == {Absent, Null, "", " ", "alice"}

PseudonymValues == {Absent, Null, "", " ", "bob"}

Order(w, sd, o, sz, pr) ==
    [proxyWallet |-> w, side |-> sd, outcome |-> o, size |-> sz, price |-> pr,
     name |-> Absent, pseudonym |-> Absent]

Named(trade, nm, ps) == [trade EXCEPT !.name = nm, !.pseudonym = ps]

Wallets == {"w1", "w2", "w3"}

Outcomes == {"Yes", "No"}

\* every wallet may buy 2 shares at 0.30 or sell 1 share at 0.60, of either
\* outcome
OrderUniverse ==
    {Order(w, "BUY", o, 2, 30) : w \in Wallets, o \in Outcomes} \cup
    {Order(w, "SELL", o, 1, 60) : w \in Wallets, o \in Outcomes}

TradeLists == UNION {[1..n -> OrderUniverse] : n \in 0..MaxTrades}

\* Lists that begin with a trade of w1 carrying any name and pseudonym and
\* go on with trades that carry other names.
LaterNamed ==
    { Named(Order("w1", "SELL", "Yes", 1, 60), "carol", Absent),
      Named(Order("w3", "BUY", "No", 2, 30), "", "bob") }

NamedLists ==
    { <<Named(Order("w1", "BUY", "Yes", 2, 30), nm, ps)>> \o rest :
        nm \in NameValues, ps \in PseudonymValues,
        rest \in UNION {[1..n -> LaterNamed] : n \in 0..(MaxTrades - 1)} }

\* Lists with trades of size zero.
ZeroSized ==
    { Order("w1", "BUY", "Yes", 0, 30), Order("w1", "BUY", "No", 0, 30),
      Order("w1", "SELL", "Yes", 0, 60), Order("w2", "BUY", "Yes", 2, 30) }

ZeroSizedLists == UNION {[1..n -> ZeroSized] : n \in 1..MaxTrades}

\* Lists of SELLs at a price of 1, of 0 and in between.
SoldAt ==
    { Order("w1", "SELL", "Yes", 1, 100), Order("w1", "SELL", "Yes", 1, 60),
      Order("w2", "SELL", "No", 2, 0) }

SoldAtLists == UNION {[1..n -> SoldAt] : n \in 1..MaxTrades}

\* [BUY 10@0.20 Yes, SELL 4@0.30 Yes, BUY 5@0.10 No] of one wallet
ExampleTrades ==
    << Order("w1", "BUY", "Yes", 10, 20),
       Order("w1", "SELL", "Yes", 4, 30),
       Order("w1", "BUY", "No", 5, 10) >>

\* value of one share of the winning outcome, in cents
Dollar == 100

\* Lists that hold both sides of a fill: the BUY of one wallet and the SELL
\* of another, of the same outcome, size and price.
Fill(buyer, seller, o) ==
    << Order(buyer, "BUY", o, 2, 30), Order(seller, "SELL", o, 2, 30) >>

Fills ==
    {Fill(b, s, o) : b \in {"w1", "w2"}, s \in {"w1", "w2"}, o \in Outcomes}

FillLists ==
    {l \in Fills \cup {f \o <<t>> : f \in Fills, t \in OrderUniverse}
                 \cup {f \o g : f \in Fills, g \in Fills} :
        Len(l) <= MaxTrades}

Inputs ==
    TradeLists \cup {ExampleTrades} \cup NamedLists \cup ZeroSizedLists
        \cup SoldAtLists \cup FillLists

(***************************************************************************)
(* The aggregation                                                          *)
(***************************************************************************)
\* user_trades = defaultdict(list), filled in input order: its keys in
\* insertion order ...
RECURSIVE GroupKeysFrom(_, _, _)
GroupKeysFrom(ts, i, keys) ==
    IF i > Len(ts) THEN keys
    ELSE IF \E k \in DOMAIN keys : keys[k] = ts[i].proxyWallet
         THEN GroupKeysFrom(ts, i + 1, keys)
         ELSE GroupKeysFrom(ts, i + 1, Append(keys, ts[i].proxyWallet))

\* one key per trade: the loop over the dict replaced by a loop over trades
GroupKeysPerTrade(ts) == [i \in DOMAIN ts |-> ts[i].proxyWallet]

GroupKeys(ts) == GroupKeysFrom(ts, 1, <<>>)

\* the grouping with `user_trades[wallet] = [trade]` for append: the list
\* under a key holds the wallet's latest trade only
OfWalletLatest(ts, w) ==
    LET Mine(t) == t.proxyWallet = w
        mine == SelectSeq(ts, Mine)
    IN  <<mine[Len(mine)]>>

\* ... and the list kept under one key
OfWallet(ts, w) ==
    LET Mine(t) == t.proxyWallet = w
    IN  SelectSeq(ts, Mine)

\* the counters of one wallet before its first trade
NoPosition ==
    [yes_shares |-> 0, no_shares |-> 0, total_spent |-> 0, total_received |-> 0]

\* the body with proceeds booked against the money spent
ApplyTradeNetCost(p, trade) ==
    LET size == trade.size
        price == trade.price
    IN  IF trade.side = "BUY"
        THEN LET cost == size * price
             IN  IF trade.outcome = "Yes"
                 THEN [p EXCEPT !.total_spent = @ + cost, !.yes_shares = @ + size]
                 ELSE [p EXCEPT !.total_spent = @ + cost, !.no_shares = @ + size]
        ELSE LET revenue == size * price
             IN  IF trade.outcome = "Yes"
                 THEN [p EXCEPT !.total_spent = @ - revenue, !.yes_shares = @ - size]
                 ELSE [p EXCEPT !.total_spent = @ - revenue, !.no_shares = @ - size]

\* the body with a position that cannot be sold below zero
ApplyTradeClamped(p, trade) ==
    LET size == trade.size
        price == trade.price
        Floor(n) == IF n < 0 THEN 0 ELSE n
    IN  IF trade.side = "BUY"
        THEN LET cost == size * price
             IN  IF trade.outcome = "Yes"
                 THEN [p EXCEPT !.total_spent = @ + cost, !.yes_shares = @ + size]
                 ELSE [p EXCEPT !.total_spent = @ + cost, !.no_shares = @ + size]
        ELSE LET revenue == size * price
             IN  IF trade.outcome = "Yes"
                 THEN [p EXCEPT !.total_received = @ + revenue,
                                !.yes_shares = Floor(@ - size)]
                 ELSE [p EXCEPT !.total_received = @ + revenue,
                                !.no_shares = Floor(@ - size)]

\* the body of `for trade in user_trade_list`
ApplyTrade(p, trade) ==
    LET size == trade.size
        price == trade.price
    IN  IF trade.side = "BUY"
        THEN LET cost == size * price
             IN  IF trade.outcome = "Yes"
                 THEN [p EXCEPT !.total_spent = @ + cost, !.yes_shares = @ + size]
                 ELSE [p EXCEPT !.total_spent = @ + cost, !.no_shares = @ + size]
        ELSE LET revenue == size * price
             IN  IF trade.outcome = "Yes"
                 THEN [p EXCEPT !.total_received = @ + revenue, !.yes_shares = @ - size]
                 ELSE [p EXCEPT !.total_received = @ + revenue, !.no_shares = @ - size]

RECURSIVE PositionFrom(_, _, _)
PositionFrom(user_trade_list, i, p) ==
    IF i > Len(user_trade_list) THEN p
    ELSE PositionFrom(user_trade_list, i + 1, ApplyTrade(p, user_trade_list[i]))

Position(user_trade_list) == PositionFrom(user_trade_list, 1, NoPosition)

\* a position that cannot go below zero
SharesFloored(p, r) ==
    LET held == IF r = "Yes" THEN p.yes_shares ELSE p.no_shares
    IN  IF held < 0 THEN 0 ELSE held

\* the shares of both outcomes counted as winning
SharesInEitherOutcome(p, r) == p.yes_shares + p.no_shares

\* shares_in_winning_outcome
SharesInWinningOutcome(p, r) ==
    IF r = "Yes" THEN p.yes_shares ELSE p.no_shares

\* pnl = final_position_value - total_spent + total_received
Pnl(p, r) == Dollar * SharesInWinningOutcome(p, r) - p.total_spent + p.total_received

(***************************************************************************)
(* Display names.  dict.get, str.strip, `or` and the slice wallet[:10] are  *)
(* modelled on the values above.  A wallet of the model stands for a        *)
(* 42-character address; w1 and w3 begin with the same ten characters.      *)
(***************************************************************************)
AttributeError == "<AttributeError>"

\* trade.get(key): None when the key is absent
Get(v) == IF v = Absent THEN Null ELSE v

\* trade.get(key, ''): '' when the key is absent
GetOrEmpty(v) == IF v = Absent THEN "" ELSE v

\* v.strip(): None has no strip
Strip(v) ==
    IF v = Null THEN AttributeError
    ELSE IF v = " " THEN "" ELSE v

\* truthiness of None and of a string
TruthyName(v) == v \notin {Null, ""}

\* a or b
Or(a, b) == IF TruthyName(a) THEN a ELSE b

\* wallet[:10]
Prefix10(w) == IF w = "w2" THEN "0x22222222" ELSE "0x11111111"

\* wallet[:10] + '...'
WithDots(prefix) == IF prefix = "0x22222222" THEN "0x22222222..." ELSE "0x11111111..."

\* the fallback with the choices in another order
UsernamePseudonymFirst(w, first) ==
    Or(Get(first.pseudonym), Or(Get(first.name), Prefix10(w)))

\* username of analyze_market.py
AnalyzeUsername(w, first) ==
    Or(Get(first.name), Or(Get(first.pseudonym), Prefix10(w)))

\* username of streamlit_app.py: both keys are stripped before the choice
AppUsername(first) ==
    LET name == Strip(GetOrEmpty(first.name))
        pseudonym == Strip(GetOrEmpty(first.pseudonym))
    IN  IF AttributeError \in {name, pseudonym} THEN AttributeError
        ELSE Or(name, Or(pseudonym, Null))

\* the User column of main in streamlit_app.py
DisplayUser(u) ==
    IF TruthyName(u.username) THEN u.username ELSE WithDots(Prefix10(u.wallet))

(***************************************************************************)
(* Quotients.  A quotient is kept as a fraction in lowest terms; dividing   *)
(* by zero gives ZeroDivisionError.                                         *)
(***************************************************************************)
RECURSIVE GCD(_, _)
GCD(a, b) == IF b = 0 THEN a ELSE GCD(b, a % b)

Abs(n) == IF n < 0 THEN 0 - n ELSE n

ZeroDivisionError == [num |-> 0, den |-> 0]

Zero == [num |-> 0, den |-> 1]

\* n / d
Divide(n, d) ==
    IF d = 0 THEN ZeroDivisionError
    ELSE LET g == GCD(Abs(n), Abs(d))
             sign == IF d < 0 THEN 0 - 1 ELSE 1
         IN  [num |-> sign * (n \div g), den |-> sign * (d \div g)]

\* the division without its test
UnguardedDivide(n, d) == Divide(n, d)

\* (n / d) if d > 0 else 0
GuardedDivide(n, d) == IF d > 0 THEN Divide(n, d) ELSE Zero

\* yes_buys / no_buys: the BUY trades of one outcome
Buys(user_trade_list, o) ==
    LET Bought(t) == t.side = "BUY" /\ (t.outcome = "Yes") = (o = "Yes")
    IN  SelectSeq(user_trade_list, Bought)

\* sum(size * price for size, price in buys)
RECURSIVE CostOf(_)
CostOf(buys) ==
    IF buys = <<>> THEN 0
    ELSE buys[1].size * buys[1].price + CostOf(Tail(buys))

\* sum(size for size, _ in buys)
RECURSIVE SharesOf(_)
SharesOf(buys) == IF buys = <<>> THEN 0 ELSE buys[1].size + SharesOf(Tail(buys))

\* avg_entry_price of analyze_market.py, in cents per share
AvgEntryPrice(user_trade_list, r) ==
    LET buys == Buys(user_trade_list, r)
    IN  IF buys # <<>> THEN GuardedDivide(CostOf(buys), SharesOf(buys)) ELSE Zero

\* roi of analyze_market.py, in percent
Roi(pnl, total_bet) == GuardedDivide(pnl * 100, total_bet)

\* avg_purchase_price of streamlit_app.py, in cents per share
AvgPurchasePrice(user_trade_list, total_spent) ==
    LET IsBuy(t) == t.side = "BUY"
        total_shares_bought == SharesOf(SelectSeq(user_trade_list, IsBuy))
    IN  GuardedDivide(total_spent, total_shares_bought)

\* results.append({...}) of analyze_market.py
AnalyzeEntry(w, user_trade_list, r) ==
    LET p == Position(user_trade_list)
    IN  [wallet |-> w,
         username |-> AnalyzeUsername(w, user_trade_list[1]),
         avg_entry_price |-> AvgEntryPrice(user_trade_list, r),
         roi |-> Roi(Pnl(p, r), p.total_spent),
         pnl |-> Pnl(p, r),
         total_bet |-> p.total_spent,
         final_shares |-> SharesInWinningOutcome(p, r),
         yes_shares |-> p.yes_shares,
         no_shares |-> p.no_shares,
         num_trades |-> Len(user_trade_list)]

\* results.append({...}) of analyze_big_trades.py
BigTradesEntry(w, user_trade_list, r) ==
    LET p == Position(user_trade_list)
    IN  [wallet |-> w,
         pnl |-> Pnl(p, r),
         total_spent |-> p.total_spent,
         total_received |-> p.total_received,
         final_shares |-> SharesInWinningOutcome(p, r),
         yes_shares |-> p.yes_shares,
         no_shares |-> p.no_shares,
         num_big_trades |-> Len(user_trade_list),
         total_volume |-> p.total_spent + p.total_received]

\* results.append({...}) of streamlit_app.py
AppEntry(w, user_trade_list, r) ==
    LET p == Position(user_trade_list)
    IN  [wallet |-> w,
         username |-> AppUsername(user_trade_list[1]),
         avg_purchase_price |-> AvgPurchasePrice(user_trade_list, p.total_spent),
         pnl |-> Pnl(p, r),
         total_spent |-> p.total_spent,
         total_received |-> p.total_received,
         final_shares |-> SharesInWinningOutcome(p, r),
         num_big_trades |-> Len(user_trade_list),
         total_volume |-> p.total_spent + p.total_received]

\* list.sort / sorted with key = pnl and reverse = True: a stable sort, in
\* which entries of equal pnl keep their order.  An entry is put behind the
\* entries already placed whose pnl is at least its own.
InsertByPnl(sorted, e) ==
    LET k == Cardinality({i \in DOMAIN sorted : sorted[i].pnl >= e.pnl})
    IN  SubSeq(sorted, 1, k) \o <<e>> \o SubSeq(sorted, k + 1, Len(sorted))

RECURSIVE SortFrom(_, _, _)
SortFrom(rs, i, sorted) ==
    IF i > Len(rs) THEN sorted
    ELSE SortFrom(rs, i + 1, InsertByPnl(sorted, rs[i]))

\* the sort without reverse = True
InsertByPnlAscending(sorted, e) ==
    LET k == Cardinality({i \in DOMAIN sorted : sorted[i].pnl <= e.pnl})
    IN  SubSeq(sorted, 1, k) \o <<e>> \o SubSeq(sorted, k + 1, Len(sorted))

RECURSIVE SortAscendingFrom(_, _, _)
SortAscendingFrom(rs, i, sorted) ==
    IF i > Len(rs) THEN sorted
    ELSE SortAscendingFrom(rs, i + 1, InsertByPnlAscending(sorted, rs[i]))

SortByPnlAscending(rs) == SortAscendingFrom(rs, 1, <<>>)

\* the sort left out
NotSorted(rs) == rs

\* an ascending sort read backwards: sorted(...)[::-1]
SortAscendingReversed(rs) ==
    LET up == SortAscendingFrom(rs, 1, <<>>)
    IN  [i \in DOMAIN up |-> up[Len(up) + 1 - i]]

SortByPnlDescending(rs) == SortFrom(rs, 1, <<>>)

\* a grouping dict made once, at module level or as a default argument:
\* a call finds in it the trades the calls before it appended
UserTradesKept(left) == left

\* user_trades = defaultdict(list), the first statement of each aggregator:
\* whatever dict an earlier call left, the grouping loop starts from an
\* empty one.  A dict is kept as the trades appended to it, in order: its
\* keys are GroupKeys of them and the list under a key is OfWallet of them.
NewUserTrades(left) == <<>>

\* the dict after the grouping loop: every trade of the list appended
Grouped(left, ts) == NewUserTrades(left) \o ts

\* The caller's list after a call: the aggregators only read it (`for trade
\* in trades`) and keep nothing outside their locals.
InputAfterCall(ts) == ts

\* analyze_trades of analyze_market.py
analyze_trades(ts, r) ==
    LET keys == GroupKeys(ts)
    IN  SortByPnlDescending(
            [k \in DOMAIN keys |-> AnalyzeEntry(keys[k], OfWallet(ts, keys[k]), r)])

\* calculate_leaderboard of analyze_big_trades.py
calculate_leaderboard(ts, r) ==
    LET keys == GroupKeys(ts)
    IN  SortByPnlDescending(
            [k \in DOMAIN keys |-> BigTradesEntry(keys[k], OfWallet(ts, keys[k]), r)])

\* calculate_leaderboard of streamlit_app.py: returns results as appended
app_calculate_leaderboard(ts, r) ==
    LET keys == GroupKeys(ts)
    IN  [k \in DOMAIN keys |-> AppEntry(keys[k], OfWallet(ts, keys[k]), r)]

\* sum(...)
RECURSIVE SeqSum(_)
SeqSum(s) == IF s = <<>> THEN 0 ELSE s[1] + SeqSum(Tail(s))

\* the summary of main in analyze_market.py with the losers left out
NetOfWinners(rs) ==
    SeqSum([i \in DOMAIN rs |-> IF rs[i].pnl > 0 THEN rs[i].pnl ELSE 0])

\* net_pnl = total_pnl_winners + total_pnl_losers
net_pnl(rs) ==
    LET total_pnl_winners ==
            SeqSum([i \in DOMAIN rs |-> IF rs[i].pnl > 0 THEN rs[i].pnl ELSE 0])
        total_pnl_losers ==
            SeqSum([i \in DOMAIN rs |-> IF rs[i].pnl < 0 THEN rs[i].pnl ELSE 0])
    IN  total_pnl_winners + total_pnl_losers

(***************************************************************************)
(* Aggregator actions: one per call                                         *)
(***************************************************************************)
FetchIdle ==
    /\ fetcher = "none"
    /\ server = [kind |-> "none", n |-> 0, past |-> "empty"]
    /\ pc = "idle"
    /\ offset = 0
    /\ all_trades = <<>>
    /\ seen_hashes = {}
    /\ trades = <<>>
    /\ new_trades = <<>>
    /\ requested = <<>>
    /\ failed = FALSE
    /\ first_received = <<>>
    /\ data = NoEnvelope

AggInit ==
    /\ agg_pc = "input"
    /\ agg_trades \in Inputs
    /\ resolves_to \in Outcomes
    /\ results = <<>>
    /\ leaderboard_pnl = <<>>
    /\ calls = 0
    /\ results_again = <<>>
    /\ user_trades = <<>>
    /\ FetchIdle
    /\ LoopIdle
    /\ SizeIdle
    /\ DashIdle

\* a function that reads results[0] before it returns
RaisesOnEmpty(rs) ==
    \/ rs = <<>>
    \/ \E i \in DOMAIN rs :
          ZeroDivisionError \in {rs[i].avg_entry_price, rs[i].roi}

\* an exception leaves the function: the caller gets no list
AnalyzeRaises(rs) ==
    \E i \in DOMAIN rs :
        ZeroDivisionError \in {rs[i].avg_entry_price, rs[i].roi}

AppRaises(rs) ==
    \E i \in DOMAIN rs :
        \/ rs[i].username = AttributeError
        \/ rs[i].avg_purchase_price = ZeroDivisionError

\* the exception of the first wallet that has one: the name is read before
\* the average is computed
AppException(rs) ==
    LET first == CHOOSE i \in DOMAIN rs :
                    /\ AppRaises(<<rs[i]>>)
                    /\ \A j \in 1..(i - 1) : ~AppRaises(<<rs[j]>>)
    IN  IF rs[first].username = AttributeError
        THEN "AttributeError" ELSE "ZeroDivisionError"

CallAnalyzeTrades ==
    /\ agg_pc = "input"
    /\ LET rs == analyze_trades(Grouped(user_trades, agg_trades), resolves_to)
       IN  IF AnalyzeRaises(rs)
           THEN results' = <<>> /\ agg_pc' = "ZeroDivisionError"
           ELSE results' = rs /\ agg_pc' = "analyze_trades"
    /\ agg_trades' = InputAfterCall(agg_trades)
    /\ user_trades' = Grouped(user_trades, agg_trades)
    /\ calls' = 1
    /\ UNCHANGED <<resolves_to, leaderboard_pnl, results_again, fetch_vars,
                   loop_vars, size_vars, dash_vars>>

CallCalculateLeaderboard ==
    /\ agg_pc = "input"
    /\ results' = calculate_leaderboard(Grouped(user_trades, agg_trades),
                                        resolves_to)
    /\ agg_trades' = InputAfterCall(agg_trades)
    /\ user_trades' = Grouped(user_trades, agg_trades)
    /\ calls' = 1
    /\ agg_pc' = "calculate_leaderboard"
    /\ UNCHANGED <<resolves_to, leaderboard_pnl, results_again, fetch_vars,
                   loop_vars, size_vars, dash_vars>>

AppCalculateLeaderboard ==
    /\ agg_pc = "input"
    /\ LET rs == app_calculate_leaderboard(Grouped(user_trades, agg_trades),
                                          resolves_to)
       IN  IF AppRaises(rs)
           THEN results' = <<>> /\ agg_pc' = AppException(rs)
           ELSE results' = rs /\ agg_pc' = "app_leaderboard"
    /\ agg_trades' = InputAfterCall(agg_trades)
    /\ user_trades' = Grouped(user_trades, agg_trades)
    /\ calls' = 1
    /\ UNCHANGED <<resolves_to, leaderboard_pnl, results_again, fetch_vars,
                   loop_vars, size_vars, dash_vars>>

\* main of streamlit_app.py, reached with a non-empty trade list only:
\* leaderboard_pnl = sorted(leaderboard, key = pnl, reverse = True)
AppSortByPnl ==
    /\ agg_pc = "app_leaderboard"
    /\ agg_trades # <<>>
    /\ leaderboard_pnl' = SortByPnlDescending(results)
    /\ agg_pc' = "app_sorted"
    /\ UNCHANGED <<agg_trades, resolves_to, results, calls, results_again,
                   user_trades, fetch_vars, loop_vars, size_vars, dash_vars>>

\* the same aggregator called once more, in the same process, on the same
\* list object and the same resolution: it runs in the state the first call
\* left (the caller's list, the dict of the first call)
CallAgain ==
    /\ agg_pc \in {"analyze_trades", "calculate_leaderboard", "app_leaderboard"}
    /\ calls = 1
    /\ LET grouped == Grouped(user_trades, agg_trades)
       IN  /\ results_again' =
                 IF agg_pc = "analyze_trades"
                 THEN analyze_trades(grouped, resolves_to)
                 ELSE IF agg_pc = "calculate_leaderboard"
                      THEN calculate_leaderboard(grouped, resolves_to)
                      ELSE app_calculate_leaderboard(grouped, resolves_to)
           /\ user_trades' = grouped
    /\ agg_trades' = InputAfterCall(agg_trades)
    /\ calls' = 2
    /\ UNCHANGED <<agg_pc, resolves_to, results, leaderboard_pnl, fetch_vars,
                   loop_vars, size_vars, dash_vars>>

AggNext ==
    \/ CallAnalyzeTrades
    \/ CallCalculateLeaderboard
    \/ AppCalculateLeaderboard
    \/ AppSortByPnl
    \/ CallAgain

AggSpec == AggInit /\ [][AggNext]_vars

(***************************************************************************)
(* The loop `for trade in user_trade_list`, one trade per step.  Sizes are  *)
(* 0 or more, prices go from 0 to 1 (100 cents).                            *)
(***************************************************************************)
WalletOrders ==
    { Order("w1", "BUY", "Yes", 0, 30), Order("w1", "BUY", "Yes", 2, 0),
      Order("w1", "BUY", "Yes", 2, 30), Order("w1", "BUY", "No", 2, 100),
      Order("w1", "SELL", "Yes", 1, 60), Order("w1", "SELL", "Yes", 0, 60),
      Order("w1", "SELL", "No", 1, 100), Order("w1", "SELL", "No", 3, 0) }

LoopInit ==
    /\ wallet_trades \in UNION {[1..n -> WalletOrders] : n \in 1..MaxTrades}
    /\ processed = 0
    /\ position = NoPosition
    /\ FetchIdle
    /\ AggIdle
    /\ SizeIdle
    /\ DashIdle

ProcessTrade ==
    /\ processed < Len(wallet_trades)
    /\ position' = ApplyTrade(position, wallet_trades[processed + 1])
    /\ processed' = processed + 1
    /\ UNCHANGED <<wallet_trades, fetch_vars, agg_vars, size_vars, dash_vars>>

LoopNext == ProcessTrade

LoopSpec == LoopInit /\ [][LoopNext]_vars

(***************************************************************************)
(* The dashboard.  Streamlit runs main from top to bottom on every          *)
(* interaction; only st.session_state lasts from one run to the next.       *)
(* One action is one such run, with the widget values of that run and the   *)
(* answer of the search as its inputs.                                      *)
(***************************************************************************)
Market(id, question, prices, volume) ==
    [conditionId |-> id, question |-> question, outcomePrices |-> prices,
     volume |-> volume]

\* the markets a search may find: one resolved to No, one resolved to Yes,
\* one that is open, one without prices and without volume
Markets ==
    { Market("0xa", "A?", <<"0", "1">>, 100),
      Market("0xb", "B?", <<"1", "0">>, 200),
      Market("0xc", "C?", <<"0.5", "0.5">>, 300),
      Market("0xd", "D?", <<>>, 0) }

\* what search_markets may return: nothing, one market, or all of them
SearchResults == {{}} \cup {{m} : m \in Markets} \cup {Markets}

\* what may be typed into the Condition ID field
TypedIds == {"", "0xa", "0xb", "0xe"}

\* truthiness of the condition ID: None and '' are falsy
TruthyId(id) == id \notin {None, ""}

\* session_state with the two keys written
Store(session, selected_market) ==
    [key \in {"selected_market_data", "selected_market_volume"} |->
        IF key = "selected_market_data" THEN selected_market
        ELSE selected_market.volume]

\* a run that writes nothing into session_state finds it as it was left
Keep(session) == session

\* the resolution read from outcomePrices
DetectResolution(outcome_prices) ==
    IF Len(outcome_prices) >= 2
    THEN IF outcome_prices[1] = "1" THEN "Yes"
         ELSE IF outcome_prices[2] = "1" THEN "No"
         ELSE None
    ELSE None

\* actual_resolution of a run
ActualResolution(session) ==
    IF "selected_market_data" \in DOMAIN session
    THEN DetectResolution(session["selected_market_data"].outcomePrices)
    ELSE None

\* default_index of the outcome selector
DefaultIndex(detected) == IF detected = "No" THEN 1 ELSE 0

\* f"${volume:,.0f}"
FormatVolume(volume) ==
    IF volume = 100 THEN "$100"
    ELSE IF volume = 200 THEN "$200"
    ELSE IF volume = 300 THEN "$300"
    ELSE "$0"

\* the Market Volume metric
MarketVolume(session) ==
    IF "selected_market_volume" \in DOMAIN session
    THEN FormatVolume(session["selected_market_volume"])
    ELSE "N/A"

DashInit ==
    /\ DashIdle
    /\ FetchIdle
    /\ AggIdle
    /\ LoopIdle
    /\ SizeIdle

\* A trade as the dashboard's fetch returns it: with a timestamp, which may
\* be missing or null.  The number itself is not read by the model.
Stamped(trade, timestamp) ==
    [proxyWallet |-> trade.proxyWallet, side |-> trade.side,
     outcome |-> trade.outcome, size |-> trade.size, price |-> trade.price,
     name |-> trade.name, pseudonym |-> trade.pseudonym,
     timestamp |-> timestamp]

FetchedTrades ==
    { Stamped(Order("w1", "BUY", "Yes", 2, 30), "1767225600"),
      Stamped(Named(Order("w1", "BUY", "Yes", 2, 30), Null, "bob"), "1767225600"),
      Stamped(Named(Order("w2", "BUY", "No", 2, 30), "alice", Null), "1767225600"),
      Stamped(Order("w2", "SELL", "Yes", 1, 60), Absent),
      Stamped(Order("w3", "BUY", "Yes", 2, 30), Null) }

\* what fetch_big_trades may return
FetchedLists == UNION {[1..n -> FetchedTrades] : n \in 0..MaxFetched}

\* the exception one pass of the loop over the wallets raises: the names are
\* read first, then the timestamp of the first trade, then the average
WalletFault(w, user_trade_list, r) ==
    LET e == AppEntry(w, user_trade_list, r)
    IN  IF e.username = AttributeError THEN "AttributeError"
        ELSE IF user_trade_list[1].timestamp = Absent THEN "KeyError"
        ELSE IF e.avg_purchase_price = ZeroDivisionError THEN "ZeroDivisionError"
        ELSE "none"

\* the exception calculate_leaderboard raises: that of the first wallet, in
\* the order of the dict, that has one
LeaderboardFault(ts, r) ==
    LET keys == GroupKeys(ts)
        fault == [k \in DOMAIN keys |->
                    WalletFault(keys[k], OfWallet(ts, keys[k]), r)]
    IN  IF \A k \in DOMAIN keys : fault[k] = "none" THEN "none"
        ELSE fault[CHOOSE k \in DOMAIN keys :
                      /\ fault[k] # "none"
                      /\ \A j \in 1..(k - 1) : fault[j] = "none"]

\* timestamps = [t['timestamp'] for t in trades] and the time span
MetricsFault(ts) ==
    IF \E i \in DOMAIN ts : ts[i].timestamp = Absent THEN "KeyError"
    ELSE IF \E i \in DOMAIN ts : ts[i].timestamp = Null THEN "TypeError"
    ELSE "none"

\* How the analysis block ends: skipped, left on an empty fetch, left by an
\* exception, or come to the metrics.
Analysis(id, analyze_button, ts, r) ==
    IF ~(analyze_button /\ TruthyId(id)) THEN "no analysis"
    ELSE IF ts = <<>> THEN "no trades"
    ELSE LET raised == LeaderboardFault(ts, r)
         IN  IF raised # "none" THEN raised
             ELSE IF MetricsFault(ts) # "none" THEN MetricsFault(ts)
             ELSE "metrics"

\* the options of the outcome selector; default_index is only the one
\* preselected, the user picks either
SelectorOptions == <<"Yes", "No">>

\* the rest of main, from the detection of the resolution to the Market
\* Volume metric; picked is the option the user leaves or sets in the
\* selector, fetched is what fetch_big_trades returns when it is called
Render(session, id, picked, analyze_button, fetched) ==
    LET end == Analysis(id, analyze_button, fetched, SelectorOptions[picked])
    IN  /\ session_state' = session
        /\ condition_id' = id
        /\ actual_resolution' = ActualResolution(session)
        /\ default_index' = DefaultIndex(ActualResolution(session))
        /\ resolution' = SelectorOptions[picked]
        /\ dash_pc' = end
        /\ market_volume' =
              IF dash_pc' = "metrics" THEN MarketVolume(session) ELSE NotShown
        /\ reruns' = reruns + 1
        /\ UNCHANGED <<fetch_vars, agg_vars, loop_vars, size_vars>>

\* a run with "Search by Name" in which the search finds markets and one of
\* them is selected
RunSearchSelect(markets, selected, picked, analyze_button, fetched) ==
    /\ reruns < MaxReruns
    /\ markets # {}
    /\ selected \in markets
    /\ input_method' = "Search by Name"
    /\ Render(Store(session_state, selected), selected.conditionId,
              picked, analyze_button, fetched)

\* a run with "Search by Name" in which the query is empty or the search
\* finds nothing: condition_id stays None
RunSearchNothing(picked, analyze_button) ==
    /\ reruns < MaxReruns
    /\ input_method' = "Search by Name"
    /\ Render(Keep(session_state), None, picked, analyze_button, <<>>)

\* a run with "Enter Condition ID"
RunEnterId(typed, picked, analyze_button, fetched) ==
    /\ reruns < MaxReruns
    /\ input_method' = "Enter Condition ID"
    /\ Render(Keep(session_state), typed, picked, analyze_button, fetched)

\* the fetch is called only when the button was pressed
FetchedWhen(analyze_button) == IF analyze_button THEN FetchedLists ELSE {<<>>}

DashNext ==
    \/ \E markets \in SearchResults, selected \in Markets,
          picked \in DOMAIN SelectorOptions, analyze_button \in BOOLEAN :
          \E fetched \in FetchedWhen(analyze_button) :
              RunSearchSelect(markets, selected, picked, analyze_button,
                              fetched)
    \/ \E picked \in DOMAIN SelectorOptions, analyze_button \in BOOLEAN :
          RunSearchNothing(picked, analyze_button)
    \/ \E typed \in TypedIds, picked \in DOMAIN SelectorOptions,
          analyze_button \in BOOLEAN :
          \E fetched \in FetchedWhen(analyze_button) :
              RunEnterId(typed, picked, analyze_button, fetched)

DashSpec == DashInit /\ [][DashNext]_vars

(***************************************************************************)
(* Properties of the aggregators                                            *)
(***************************************************************************)
Returned == agg_pc \in {"analyze_trades", "calculate_leaderboard",
                        "app_leaderboard", "app_sorted"}

WalletsOf(ts) == {ts[i].proxyWallet : i \in DOMAIN ts}

\* sum of size * price over the trades of wallet w on side sd
Cash(ts, w, sd) ==
    SeqSum([i \in DOMAIN ts |->
        IF ts[i].proxyWallet = w /\ ts[i].side = sd
        THEN ts[i].size * ts[i].price ELSE 0])

\* shares of outcome o bought minus shares of outcome o sold by wallet w
Net(ts, w, o) ==
    SeqSum([i \in DOMAIN ts |->
        IF ts[i].proxyWallet = w /\ ts[i].outcome = o
        THEN (IF ts[i].side = "BUY" THEN ts[i].size ELSE 0 - ts[i].size)
        ELSE 0])

SortedByPnl(rs) == \A i \in 1..(Len(rs) - 1) : rs[i].pnl >= rs[i + 1].pnl

FirstIndex(ts, w) ==
    CHOOSE i \in DOMAIN ts :
        ts[i].proxyWallet = w /\ \A j \in 1..(i - 1) : ts[j].proxyWallet # w

\* C7: whatever the trade list, each aggregator returns exactly one entry
\* per distinct proxyWallet of the list: none missing, none twice, none of a
\* wallet that is not in the list.
C7_OneEntryPerWallet ==
    Returned =>
        /\ {results[i].wallet : i \in DOMAIN results} = WalletsOf(agg_trades)
        /\ Len(results) = Cardinality(WalletsOf(agg_trades))

\* two wallets, one of them with two trades
C7_Witness ==
    /\ agg_pc = "app_leaderboard"
    /\ Len(agg_trades) = 3
    /\ Len(results) = 2
    /\ agg_trades[1].proxyWallet = agg_trades[3].proxyWallet

\* C8: every entry's pnl is final_shares - total_spent + total_received,
\* with total_spent the size * price of the wallet's BUYs, total_received
\* that of its SELLs and final_shares the signed net count (bought minus
\* sold) of the outcome the market resolves to; the worked example gives
\* yes_shares 6, no_shares 5, total_spent 2.5, total_received 1.2, pnl 4.7.
C8_PnlFormula ==
    /\ Returned =>
         \A i \in DOMAIN results :
            LET e == results[i]
                spent == Cash(agg_trades, e.wallet, "BUY")
                received == Cash(agg_trades, e.wallet, "SELL")
            IN  /\ e.final_shares = Net(agg_trades, e.wallet, resolves_to)
                /\ e.pnl = Dollar * e.final_shares - spent + received
                /\ IF agg_pc = "analyze_trades"
                   THEN e.total_bet = spent
                   ELSE e.total_spent = spent /\ e.total_received = received
                /\ agg_pc \in {"analyze_trades", "calculate_leaderboard"} =>
                     /\ e.yes_shares = Net(agg_trades, e.wallet, "Yes")
                     /\ e.no_shares = Net(agg_trades, e.wallet, "No")
    /\ (Returned /\ agg_trades = ExampleTrades /\ resolves_to = "Yes") =>
         /\ Len(results) = 1
         /\ results[1].pnl = 470
         /\ results[1].final_shares = 6
         /\ agg_pc = "analyze_trades" => results[1].total_bet = 250
         /\ agg_pc # "analyze_trades" =>
              results[1].total_spent = 250 /\ results[1].total_received = 120
         /\ agg_pc \in {"analyze_trades", "calculate_leaderboard"} =>
              results[1].yes_shares = 6 /\ results[1].no_shares = 5

\* the worked example went through calculate_leaderboard
C8_Witness ==
    /\ agg_pc = "calculate_leaderboard"
    /\ agg_trades = ExampleTrades
    /\ resolves_to = "Yes"
    /\ results[1].pnl = 470

\* C9: the lists returned by analyze_trades and by calculate_leaderboard of
\* analyze_big_trades.py are in descending order of pnl.
C9_SortedByPnl ==
    agg_pc \in {"analyze_trades", "calculate_leaderboard"} => SortedByPnl(results)

\* three wallets with three different pnl, met in another order
C9_Witness ==
    /\ agg_pc = "analyze_trades"
    /\ Len(results) = 3
    /\ results[1].pnl > results[2].pnl
    /\ results[2].pnl > results[3].pnl
    /\ results[1].wallet = agg_trades[3].proxyWallet
    /\ results[3].wallet = agg_trades[2].proxyWallet

\* C10 as stated: the list the dashboard's calculate_leaderboard returns is
\* in descending order of pnl.
C10_AppLeaderboardSorted == agg_pc = "app_leaderboard" => SortedByPnl(results)

\* C10 amended: the dashboard's calculate_leaderboard returns the entries in
\* the order in which their wallets first occur in the trade list; main
\* sorts a copy in descending order of pnl for the By Total Gain table.
C10_AppSortedInMain ==
    /\ agg_pc \in {"app_leaderboard", "app_sorted"} =>
         \A i, j \in DOMAIN results :
            i < j => FirstIndex(agg_trades, results[i].wallet)
                        < FirstIndex(agg_trades, results[j].wallet)
    /\ agg_pc = "app_sorted" =>
         /\ SortedByPnl(leaderboard_pnl)
         /\ Len(leaderboard_pnl) = Len(results)
         /\ {leaderboard_pnl[i] : i \in DOMAIN leaderboard_pnl}
              = {results[i] : i \in DOMAIN results}

\* the returned list was not in pnl order and main's copy is
C10_Witness ==
    /\ agg_pc = "app_sorted"
    /\ ~SortedByPnl(results)
    /\ leaderboard_pnl # results
    /\ Len(results) = 3

\* C11: in a list sorted by pnl, entries of equal pnl stand in the order in
\* which their wallets first occur in the trade list (the sort is stable).
C11_TiesKeepEncounterOrder ==
    LET sorted == IF agg_pc = "app_sorted" THEN leaderboard_pnl
                  ELSE IF agg_pc \in {"analyze_trades", "calculate_leaderboard"}
                       THEN results ELSE <<>>
    IN  \A i, j \in DOMAIN sorted :
            (i < j /\ sorted[i].pnl = sorted[j].pnl)
                => FirstIndex(agg_trades, sorted[i].wallet)
                     < FirstIndex(agg_trades, sorted[j].wallet)

\* two wallets tie behind a wallet that came last and gained most
C11_Witness ==
    /\ agg_pc = "calculate_leaderboard"
    /\ Len(results) = 3
    /\ results[1].wallet = agg_trades[3].proxyWallet
    /\ results[1].pnl > results[2].pnl
    /\ results[2].pnl = results[3].pnl
    /\ results[2].wallet = agg_trades[1].proxyWallet

\* the entry of wallet w in a returned list
EntryOf(rs, w) == rs[CHOOSE i \in DOMAIN rs : rs[i].wallet = w]

Orderings(n) ==
    {f \in [1..n -> 1..n] : \A i, j \in 1..n : f[i] = f[j] => i = j}

Permuted(ts, f) == [i \in DOMAIN ts |-> ts[f[i]]]

\* the entry the aggregator that returned computes for wallet w from the
\* list user_trade_list of its trades
EntryFor(w, user_trade_list) ==
    IF agg_pc = "analyze_trades" THEN AnalyzeEntry(w, user_trade_list, resolves_to)
    ELSE IF agg_pc = "calculate_leaderboard"
         THEN BigTradesEntry(w, user_trade_list, resolves_to)
         ELSE AppEntry(w, user_trade_list, resolves_to)

\* C12: the pnl, the cash totals and the share counters of a wallet are the
\* same for every order of that wallet's trades: from every permutation of
\* the wallet's trade sequence the aggregator computes the values of the
\* entry it returned.
C12_OrderIndependent ==
    Returned =>
        \A i \in DOMAIN results :
            LET e == results[i]
                mine == OfWallet(agg_trades, e.wallet)
            IN  \A f \in Orderings(Len(mine)) :
                    LET d == EntryFor(e.wallet, Permuted(mine, f))
                    IN  /\ d.pnl = e.pnl
                        /\ d.final_shares = e.final_shares
                        /\ IF agg_pc = "analyze_trades"
                           THEN d.total_bet = e.total_bet
                           ELSE /\ d.total_spent = e.total_spent
                                /\ d.total_received = e.total_received
                        /\ agg_pc \in {"analyze_trades", "calculate_leaderboard"}
                              => /\ d.yes_shares = e.yes_shares
                                 /\ d.no_shares = e.no_shares

\* a wallet sold an outcome before it bought it
C12_Witness ==
    /\ agg_pc = "calculate_leaderboard"
    /\ Len(agg_trades) = 3
    /\ agg_trades[1].proxyWallet = agg_trades[2].proxyWallet
    /\ agg_trades[1].outcome = agg_trades[2].outcome
    /\ agg_trades[1].side = "SELL"
    /\ agg_trades[2].side = "BUY"
    /\ Len(results) = 2

\* C13: a second call of the same aggregator on the same trade list and
\* resolution returns the list the first call returned (same entries, same
\* values, same order), and it leaves the caller's list and its own grouping
\* dict as the first call left them: nothing of the first call is carried
\* into the second.
C13_SecondCallSameOutput ==
    [][CallAgain => /\ results_again' = results
                    /\ agg_trades' = agg_trades
                    /\ user_trades' = user_trades
                    /\ user_trades' = agg_trades]_vars

\* calculate_leaderboard was called twice on three trades of two wallets,
\* one of them with two trades in its list
C13_Witness ==
    /\ calls = 2
    /\ agg_pc = "calculate_leaderboard"
    /\ Len(results_again) = 2
    /\ Len(agg_trades) = 3
    /\ user_trades = agg_trades
    /\ \E i \in DOMAIN results_again : results_again[i].num_big_trades = 2

\* C14: called with an empty trade list, each aggregator returns an empty
\* list and raises nothing, whichever way the market resolves.
C14_EmptyListEmptyLeaderboard ==
    (agg_trades = <<>> /\ calls >= 1) =>
        /\ agg_pc \in {"analyze_trades", "calculate_leaderboard", "app_leaderboard"}
        /\ results = <<>>
        /\ calls = 2 => results_again = <<>>

\* analyze_trades returned from a call with no trades and resolution No
C14_Witness ==
    /\ agg_trades = <<>>
    /\ resolves_to = "No"
    /\ agg_pc = "analyze_trades"
    /\ calls = 1
    /\ results = <<>>

\* wallet w traded, and only the outcome the market does not resolve to
OnlyLosingOutcome(ts, w, r) ==
    /\ \E i \in DOMAIN ts : ts[i].proxyWallet = w
    /\ \A i \in DOMAIN ts : ts[i].proxyWallet = w => ts[i].outcome # r

\* C15: a wallet all of whose trades are in the losing outcome gets
\* final_shares = 0 and pnl = total_received - total_spent.
C15_LosingOutcomeOnly ==
    Returned =>
        \A i \in DOMAIN results :
            LET e == results[i]
            IN  OnlyLosingOutcome(agg_trades, e.wallet, resolves_to) =>
                    /\ e.final_shares = 0
                    /\ e.pnl = Cash(agg_trades, e.wallet, "SELL")
                                - Cash(agg_trades, e.wallet, "BUY")

\* a wallet bought the losing outcome twice and sold some of it
C15_Witness ==
    /\ agg_pc = "calculate_leaderboard"
    /\ Len(agg_trades) = 3
    /\ Len(results) = 1
    /\ OnlyLosingOutcome(agg_trades, results[1].wallet, resolves_to)
    /\ results[1].total_spent > 0
    /\ results[1].total_received > 0
    /\ results[1].pnl < 0

\* shares bought by wallet w: of outcome o, or of any outcome when o = "any"
Bought(ts, w, o) ==
    SeqSum([i \in DOMAIN ts |->
        IF ts[i].proxyWallet = w /\ ts[i].side = "BUY" /\ o \in {"any", ts[i].outcome}
        THEN ts[i].size ELSE 0])

\* C16: no aggregator ends in a division by zero.  In analyze_trades the
\* average entry price is 0 when no share of the winning outcome was bought
\* and the ROI is 0 when nothing was spent; in the dashboard the average
\* purchase price is 0 when no share was bought.
C16_DivisionsGuarded ==
    /\ agg_pc # "ZeroDivisionError"
    /\ agg_pc = "analyze_trades" =>
         \A i \in DOMAIN results :
            LET e == results[i]
            IN  /\ e.avg_entry_price # ZeroDivisionError
                /\ e.roi # ZeroDivisionError
                /\ Bought(agg_trades, e.wallet, resolves_to) = 0
                      => e.avg_entry_price = Zero
                /\ e.total_bet = 0 => e.roi = Zero
    /\ agg_pc \in {"app_leaderboard", "app_sorted"} =>
         \A i \in DOMAIN results :
            LET e == results[i]
            IN  /\ e.avg_purchase_price # ZeroDivisionError
                /\ Bought(agg_trades, e.wallet, "any") = 0
                      => e.avg_purchase_price = Zero

\* analyze_trades returned for a wallet that bought zero shares of the
\* winning outcome and for a wallet with an average and a ROI
C16_Witness ==
    /\ agg_pc = "analyze_trades"
    /\ Len(results) = 2
    /\ \E i \in DOMAIN agg_trades :
          /\ agg_trades[i].side = "BUY"
          /\ agg_trades[i].size = 0
          /\ agg_trades[i].outcome = resolves_to
    /\ \E i \in DOMAIN results :
          results[i].avg_entry_price = Zero /\ results[i].roi = Zero
    /\ \E i \in DOMAIN results :
          results[i].avg_entry_price.num > 0 /\ results[i].roi.num # 0

\* C17: while the loop goes through a wallet's trades, total_spent and
\* total_received are never negative and never decrease; a BUY adds its
\* size * price to total_spent and leaves total_received as it is, a SELL
\* adds its size * price to total_received and leaves total_spent as it is.
C17_TotalsMonotonic ==
    /\ [](position.total_spent >= 0 /\ position.total_received >= 0)
    /\ [][processed' = processed + 1 =>
            LET trade == wallet_trades[processed + 1]
                amount == trade.size * trade.price
            IN  /\ position'.total_spent >= position.total_spent
                /\ position'.total_received >= position.total_received
                /\ trade.side = "BUY" =>
                      /\ position'.total_spent = position.total_spent + amount
                      /\ position'.total_received = position.total_received
                /\ trade.side = "SELL" =>
                      /\ position'.total_received = position.total_received + amount
                      /\ position'.total_spent = position.total_spent]_vars

\* the loop went through a BUY and then a SELL that both moved money
C17_Witness ==
    /\ processed = 3
    /\ wallet_trades[2].side = "BUY"
    /\ wallet_trades[3].side = "SELL"
    /\ position.total_spent > 0
    /\ position.total_received > 0
    /\ position.total_received = wallet_trades[3].size * wallet_trades[3].price

\* wallet w traded, and did nothing but sell the outcome the market
\* resolves to
OnlySoldWinning(ts, w, r) ==
    /\ \E i \in DOMAIN ts : ts[i].proxyWallet = w
    /\ \A i \in DOMAIN ts :
          ts[i].proxyWallet = w => (ts[i].side = "SELL" /\ ts[i].outcome = r)

\* shares of outcome o sold by wallet w
Sold(ts, w, o) ==
    SeqSum([i \in DOMAIN ts |->
        IF ts[i].proxyWallet = w /\ ts[i].side = "SELL" /\ ts[i].outcome = o
        THEN ts[i].size ELSE 0])

\* C18 as stated: for a wallet that only sold the winning outcome, the
\* settlement of its short position and its proceeds cancel, and pnl is 0.
C18_ShortOffsetsProceeds ==
    Returned =>
        \A i \in DOMAIN results :
            LET e == results[i]
            IN  OnlySoldWinning(agg_trades, e.wallet, resolves_to) =>
                    /\ Dollar * e.final_shares
                          + Cash(agg_trades, e.wallet, "SELL") = 0
                    /\ e.pnl = 0

\* C18 amended: for a wallet that only sold the winning outcome,
\* final_shares is minus the shares sold (no floor at zero) and pnl is the
\* proceeds minus one unit per share sold: never positive, and 0 only when
\* every share was sold at a price of 1.
C18_ShortSettlesAtOne ==
    Returned =>
        \A i \in DOMAIN results :
            LET e == results[i]
                sold == Sold(agg_trades, e.wallet, resolves_to)
                received == Cash(agg_trades, e.wallet, "SELL")
            IN  OnlySoldWinning(agg_trades, e.wallet, resolves_to) =>
                    /\ e.final_shares = 0 - sold
                    /\ e.pnl = received - Dollar * sold
                    /\ e.pnl <= 0
                    /\ e.pnl = 0 <=>
                          \A k \in DOMAIN agg_trades :
                             (agg_trades[k].proxyWallet = e.wallet
                                /\ agg_trades[k].size > 0)
                                => agg_trades[k].price = Dollar

\* a wallet sold the winning outcome at 0.60 and at 1
C18_Witness ==
    /\ agg_pc = "calculate_leaderboard"
    /\ Len(agg_trades) = 2
    /\ Len(results) = 1
    /\ OnlySoldWinning(agg_trades, results[1].wallet, resolves_to)
    /\ results[1].final_shares = 0 - 2
    /\ results[1].total_received = 160
    /\ results[1].pnl = 0 - 40

\* C19: whatever the envelope (errors there or not; data there, missing or
\* null), fetch_trades_graphql returns a list and raises no missing-key or
\* attribute fault, and the list is empty whenever errors is there.
C19_EnvelopeNeverFaults ==
    (requested # <<>> /\ ~failed) =>
        LET r == fetch_trades_graphql(data)
        IN  /\ r.kind = "list"
            /\ pc # "raised"
            /\ data.errors => r.value = <<>>

\* a name or pseudonym field of the kinds C20 is about: missing, empty, or a
\* string that is a name
MissingEmptyOrName(v) == v \notin {Null, " "}

FirstTrade(ts, w) == ts[FirstIndex(ts, w)]

\* name, else pseudonym, else the truncated wallet
NameElsePseudonymElse(first, truncated) ==
    IF first.name \notin {Absent, ""} THEN first.name
    ELSE IF first.pseudonym \notin {Absent, ""} THEN first.pseudonym
    ELSE truncated

\* C20: the display name of an entry is the name of the wallet's first
\* trade in input order, else that trade's pseudonym, else the truncated
\* wallet string (wallet[:10] in analyze_market.py, wallet[:10] + '...' in
\* the User column of the dashboard); a name or pseudonym that is missing
\* or empty falls through to the next choice, and no aggregator faults on
\* such a trade.
C20_NameFallback ==
    /\ (\A w \in WalletsOf(agg_trades) :
            /\ MissingEmptyOrName(FirstTrade(agg_trades, w).name)
            /\ MissingEmptyOrName(FirstTrade(agg_trades, w).pseudonym))
          => agg_pc # "AttributeError"
    /\ agg_pc = "analyze_trades" =>
         \A i \in DOMAIN results :
            LET e == results[i]
                first == FirstTrade(agg_trades, e.wallet)
            IN  (MissingEmptyOrName(first.name)
                    /\ MissingEmptyOrName(first.pseudonym))
                  => e.username = NameElsePseudonymElse(first, Prefix10(e.wallet))
    /\ agg_pc = "app_sorted" =>
         \A i \in DOMAIN leaderboard_pnl :
            LET e == leaderboard_pnl[i]
                first == FirstTrade(agg_trades, e.wallet)
            IN  (MissingEmptyOrName(first.name)
                    /\ MissingEmptyOrName(first.pseudonym))
                  => DisplayUser(e) =
                        NameElsePseudonymElse(first, WithDots(Prefix10(e.wallet)))

\* analyze_trades returned for a wallet whose first trade has an empty name
\* and a pseudonym and whose later trade has another name, and for a second
\* wallet whose only trade has an empty name and a pseudonym
C20_Witness ==
    /\ agg_pc = "analyze_trades"
    /\ Len(agg_trades) = 3
    /\ agg_trades[1].name = "" /\ agg_trades[1].pseudonym = "bob"
    /\ agg_trades[2].proxyWallet = "w1" /\ agg_trades[2].name = "carol"
    /\ agg_trades[3].proxyWallet = "w3" /\ agg_trades[3].name = ""
    /\ EntryOf(results, "w1").username = "bob"
    /\ EntryOf(results, "w3").username = "bob"

\* the finite set the hashes of a server's responses come from
ServerHashes(srv) == IF srv.kind = "free" THEN Hashes ELSE 1..srv.n

\* C21: the two fetchers whose loop is `while True` end all the same when
\* the hashes come from a finite set: an iteration after which the loop goes
\* on has added a hash to seen_hashes, so a loop that still runs has sent at
\* most as many requests as there are hashes seen, and no run sends more
\* requests than there are hashes plus one.
C21_UncappedLoopsEnd ==
    /\ [](~HasCeiling(fetcher) =>
            /\ seen_hashes \subseteq ServerHashes(server)
            /\ Len(requested) <= Cardinality(seen_hashes) + 1
            /\ Len(requested) <= Cardinality(ServerHashes(server)) + 1
            /\ pc = "loop" => Len(requested) <= Cardinality(seen_hashes))
    /\ [][(~HasCeiling(fetcher) /\ pc' = "loop")
            => Cardinality(seen_hashes') > Cardinality(seen_hashes)]_vars

\* a loop without ceiling saw one new hash per full page and ended on the
\* request after the last hash
C21_Witness ==
    /\ ~HasCeiling(fetcher)
    /\ server.kind = "free"
    /\ pc = "returned"
    /\ ~failed
    /\ seen_hashes = Hashes
    /\ Len(requested) = Cardinality(Hashes) + 1
    /\ Len(requested) < MaxRequests
    /\ Len(trades) = limit(fetcher)

\* a trade whose transactionHash is missing, null or empty
LacksHash(t) == t.transactionHash = 0

\* C22: a trade without transactionHash is never placed in the result, and
\* a non-empty page in which every trade lacks a hash ends the fetch like a
\* page of duplicates: nothing of it is kept and the fetcher returns, on the
\* first page with an empty result.
C22_HashlessNeverKept ==
    /\ \A i \in DOMAIN all_trades : ~LacksHash(all_trades[i])
    /\ (trades # <<>> /\ \A i \in DOMAIN trades : LacksHash(trades[i])) =>
          /\ pc = "returned"
          /\ new_trades = <<>>
          /\ Len(requested) = 1 => all_trades = <<>>

\* the first page was full of trades without a hash
C22_Witness ==
    /\ pc = "returned"
    /\ ~failed
    /\ requested = <<0>>
    /\ Len(trades) = limit(fetcher)
    /\ \A i \in DOMAIN trades : LacksHash(trades[i])
    /\ all_trades = <<>>

\* C23: whenever a fetcher is at the start of a loop iteration, and when it
\* has returned, seen_hashes is exactly the set of the transactionHash
\* values of the trades in all_trades, and all_trades has as many trades as
\* seen_hashes has hashes.
C23_SeenHashesMatchResult ==
    pc \in {"loop", "returned"} =>
        /\ seen_hashes = {all_trades[i].transactionHash : i \in DOMAIN all_trades}
        /\ Len(all_trades) = Cardinality(seen_hashes)

\* a fetcher returned after pages that repeated hashes within a page and
\* across pages
C23_Witness ==
    /\ pc = "returned"
    /\ Len(requested) = 3
    /\ Cardinality(seen_hashes) = 2
    /\ Len(all_trades) = 2
    /\ Len(first_received) = 3
    /\ \E i \in DOMAIN trades : trades[i].transactionHash \in seen_hashes

\* C24: in the three loops with a ceiling the k-th request is sent with
\* offset (k-1)*limit, so the offsets increase strictly and none is used
\* twice; a fetch sends at most 10 requests where limit is 1000 and at most
\* 20 where it is 500, and, the server sending at most limit records per
\* page, the list never holds more than 10,000 trades.
C24_RequestsAndResultBounded ==
    /\ \A k \in DOMAIN requested : requested[k] = (k - 1) * RealLimit(fetcher)
    /\ \A i, j \in DOMAIN requested : i < j => requested[i] < requested[j]
    /\ fetcher \in {"analyze_big_trades", "fetch_with_filters"}
          => Len(requested) <= 10
    /\ fetcher = "streamlit_app" => Len(requested) <= 20
    /\ len_all_trades <= 10000

\* the dashboard's loop ran through twenty full pages of new trades
C24_Witness ==
    /\ fetcher = "streamlit_app"
    /\ pc = "returned"
    /\ ~failed
    /\ Len(requested) = 20
    /\ requested[20] = 9500
    /\ len_all_trades = 10000

\* C25: when the response to batch k carries GraphQL errors, whatever else
\* it carries, fetch_all_trades_graphql takes it for the end of the data:
\* it raises nothing, adds nothing, and returns the trades of the k-1 full
\* batches before it, as it returns after an empty batch.
C25_ErrorEndsPagination ==
    /\ [][(Len(requested') = Len(requested) + 1 /\ ~failed' /\ data'.errors)
            => (pc' = "returned" /\ all_trades' = all_trades)]_vars
    /\ []((requested # <<>> /\ ~failed /\ data.errors) =>
            /\ pc = "returned"
            /\ Len(all_trades) = (Len(requested) - 1) * batch_size)

\* the third response carried errors next to a full list of events
C25_Witness ==
    /\ pc = "returned"
    /\ ~failed
    /\ Len(requested) = 3
    /\ data.errors
    /\ data.data.kind = "object"
    /\ data.data.events.kind = "list"
    /\ Len(data.data.events.list) = batch_size
    /\ Len(all_trades) = 2 * batch_size

\* C26: after every run of main, the resolution detected, the default of
\* the outcome selector and the market volume shown are those of the market
\* whose condition ID is selected in that run, never those of a market
\* selected in an earlier run: a resolution, a default of No or a volume is
\* shown only if it is that of the market with the selected ID, and after
\* a selection from a search all three are that market's.
C26_DerivedFromCurrentMarket ==
    LET own == {m \in Markets : m.conditionId = condition_id}
    IN  /\ actual_resolution # None =>
              \E m \in own : actual_resolution = DetectResolution(m.outcomePrices)
        /\ default_index = 1 =>
              \E m \in own : DetectResolution(m.outcomePrices) = "No"
        /\ market_volume \notin {NotShown, "N/A"} =>
              \E m \in own : market_volume = FormatVolume(m.volume)
        /\ (reruns > 0 /\ input_method = "Search by Name" /\ condition_id # None) =>
              \E m \in own :
                  /\ actual_resolution = DetectResolution(m.outcomePrices)
                  /\ default_index = DefaultIndex(actual_resolution)
                  /\ market_volume \in {NotShown, FormatVolume(m.volume)}

\* num_trades of analyze_market.py, num_big_trades of the other two
TradeCount(e) ==
    IF "num_trades" \in DOMAIN e THEN e.num_trades ELSE e.num_big_trades

\* C27: every trade of the input list is counted in exactly one entry, that
\* of its proxyWallet: the trade count of an entry is the number of input
\* trades with the entry's wallet, and the counts of all entries add up to
\* the length of the trade list.
C27_EveryTradeCountedOnce ==
    Returned =>
        /\ \A i \in DOMAIN results :
              TradeCount(results[i]) =
                  Cardinality({j \in DOMAIN agg_trades :
                                  agg_trades[j].proxyWallet = results[i].wallet})
        /\ SeqSum([i \in DOMAIN results |-> TradeCount(results[i])]) = Len(agg_trades)

\* an aggregator returned for two wallets, one of them with the same trade
\* twice in the list
C27_Witness ==
    /\ Returned
    /\ Len(agg_trades) = 3
    /\ Len(results) = 2
    /\ \E i, j \in DOMAIN agg_trades : i < j /\ agg_trades[i] = agg_trades[j]
    /\ \E i \in DOMAIN results : TradeCount(results[i]) = 2

\* shares of outcome o bought minus shares of outcome o sold, over all trades
ListNet(ts, o) ==
    SeqSum([i \in DOMAIN ts |->
        IF ts[i].outcome = o
        THEN (IF ts[i].side = "BUY" THEN ts[i].size ELSE 0 - ts[i].size)
        ELSE 0])

\* sum of size * price over all trades on side sd
ListCash(ts, sd) ==
    SeqSum([i \in DOMAIN ts |->
        IF ts[i].side = sd THEN ts[i].size * ts[i].price ELSE 0])

\* the list holds both sides of every fill: for each outcome, size and price
\* as many BUYs as SELLs
BothSidesOfEveryFill(ts) ==
    /\ ts # <<>>
    /\ \A i \in DOMAIN ts :
          LET Same(sd) == {j \in DOMAIN ts :
                             /\ ts[j].outcome = ts[i].outcome
                             /\ ts[j].size = ts[i].size
                             /\ ts[j].price = ts[i].price
                             /\ ts[j].side = sd}
          IN  Cardinality(Same("BUY")) = Cardinality(Same("SELL"))

\* C28 as stated: the net P&L over the entries of analyze_trades is zero for
\* every trade list and resolution.
C28_NetPnlZero ==
    agg_pc = "analyze_trades" => net_pnl(results) = 0

\* C28 amended: the net P&L over the entries of analyze_trades is the
\* profit and loss of the trade list as a whole: the net number of shares
\* of the winning outcome bought over all trades, less the money spent, plus
\* the money received.  It is zero when the list holds both sides of every
\* fill, and need not be zero otherwise.
C28_NetPnlIsListBalance ==
    agg_pc = "analyze_trades" =>
        /\ net_pnl(results) =
              Dollar * ListNet(agg_trades, resolves_to)
                  - ListCash(agg_trades, "BUY") + ListCash(agg_trades, "SELL")
        /\ BothSidesOfEveryFill(agg_trades) => net_pnl(results) = 0

\* analyze_trades returned for the two sides of one fill: a winner and a
\* loser whose pnl cancel
C28_Witness ==
    /\ agg_pc = "analyze_trades"
    /\ BothSidesOfEveryFill(agg_trades)
    /\ Len(results) = 2
    /\ results[1].pnl = 140
    /\ results[2].pnl = -140
    /\ net_pnl(results) = 0

====
